---- MODULE Spec2Model ----
(***************************************************************************)
(* The relayer service (crates/services/relayer/src/service.rs): the task  *)
(* that follows the finalized height of the DA layer, downloads the logs   *)
(* of the heights it has not seen, writes the messages they hold and the   *)
(* finalized DA height to the database, and publishes the synced height on *)
(* a watch channel that SharedState reads.                                 *)
(***************************************************************************)
EXTENDS Integers, Sequences, FiniteSets, TLC

\* ------------------------------------------------------------------ bounds
\* The DA heights the remote node can report are 0..MaxHeight.
MaxHeight == 3
\* config.da_deploy_height is drawn from 0..MaxDeploy; so is the height a
\* database of an earlier run starts with.
MaxDeploy == 1
\* config.log_page_size is drawn from 1..MaxPageSize.
MaxPageSize == 2

Heights == 0..MaxHeight

\* ----------------------------------------------------------------- Option
None == <<>>
Some(h) == <<h>>
is_some(o) == o # None
is_none(o) == o = None
unwrap(o) == o[1]

Max(a, b) == IF a >= b THEN a ELSE b
Min(a, b) == IF a <= b THEN a ELSE b

\* -------------------------------------------------- the DA layer's content
\* The logs the listening contracts emitted at height h.  Finalized heights
\* are irreversible, so the logs of a height are fixed.  A Message log
\* decodes to a Message with a nonce and the da_height that produced it; an
\* Ignored log is a legal event that stores nothing.  Height 2 holds two
\* messages, every third height only an ignored event.
EventsAt(h) ==
    IF h = 0 THEN {}
    ELSE IF h % 3 = 0 THEN {[kind |-> "Ignored", nonce |-> 0, da_height |-> h]}
    ELSE {[kind |-> "Message", nonce |-> 10 * h, da_height |-> h]}
         \cup (IF h = 2
               THEN {[kind |-> "Message", nonce |-> 10 * h + 1, da_height |-> h]}
               ELSE {})

\* Remote chain client: get_logs(height_range, contract_filter).
get_logs(lo, hi) == UNION {EventsAt(h) : h \in lo..hi}

\* The messages among the events (EthEventLog::Message), as stored records.
MessagesOf(events) ==
    {[nonce |-> e.nonce, da_height |-> e.da_height] :
        e \in {x \in events : x.kind = "Message"}}

\* The nonces a reader may ask for: every nonce of the chain and 0, which no
\* message has.
Nonces == {0} \cup {m.nonce : m \in MessagesOf(get_logs(0, MaxHeight))}

VARIABLES
    config,                \* Config: da_deploy_height, log_page_size
    finalized_da_height,   \* database: the finalized DA height, an Option
    messages,              \* database: the Messages table, nonce -> Message
    synced,                \* the watch channel: value (Option) and version
    shutdown,              \* the StateWatcher's state
    pc,                    \* where the task is
    state,                 \* EthState of the iteration: remote and local
    page,                  \* the page the log stream is at, an Option
    applied,               \* write_logs: top of the last page written, Option
    result,                \* the result of run::run of the iteration
    requests,              \* the get_logs ranges issued in this iteration
    iter,                  \* facts of the iteration, for the properties
    observed_max,          \* the highest remote height finalized() returned
    base,                  \* the finalized DA height when into_task returned
    awaiter,               \* a caller of await_at_least_synced or await_synced
    reader                 \* the last get_message call and what it returned

vars == <<config, finalized_da_height, messages, synced, shutdown, pc, state, page, applied, result,
          requests, iter, observed_max, base, awaiter, reader>>

db_vars == <<finalized_da_height, messages>>
task_vars == <<pc, state, page, applied, result, requests, iter, observed_max,
               base>>


\* ------------------------------------------------------- the storage sink
\* RelayerDb::set_finalized_da_height_to_at_least: an idempotent max-merge.
set_finalized_da_height_to_at_least(db_height, h) ==
    IF is_some(db_height) /\ unwrap(db_height) >= h THEN db_height ELSE Some(h)

\* RelayerDb::get_finalized_da_height: an error while no height is stored.
get_finalized_da_height(db_height) ==
    IF is_some(db_height) THEN [ok |-> TRUE, value |-> unwrap(db_height)]
    ELSE [ok |-> FALSE, value |-> 0]

\* storage::<Messages>().get(id)
storage_get(table, id) ==
    IF id \in DOMAIN table THEN Some(table[id]) ELSE None

\* put_record refusing an identifier that is stored already.
insert_messages_result_unique(table, ms) ==
    IF \E m \in ms : m.nonce \in DOMAIN table THEN "ErrStorage" ELSE "Ok"

\* The result of put_record for every message of a page: writing an
\* identifier that is stored already is not an error.
insert_messages_result(table, ms) == "Ok"

\* put_record for every message of a page, keyed by nonce.
insert_messages(table, ms) ==
    [n \in DOMAIN table \cup {m.nonce : m \in ms} |->
        IF \E m \in ms : m.nonce = n
        THEN CHOOSE m \in ms : m.nonce = n
        ELSE table[n]]

\* The Messages table of a database that has already taken in heights 1..h.
TableUpTo(h) ==
    LET ms == MessagesOf(get_logs(0, h))
    IN  [n \in {m.nonce : m \in ms} |-> CHOOSE m \in ms : m.nonce = n]

\* -------------------------------------------------------------- the gap
\* Gap Resolver: the closed interval [local + 1, remote]; a database without
\* a height has seen nothing.
EthSyncGap(remote, local) ==
    [oldest |-> IF is_some(local) THEN unwrap(local) + 1 ELSE 0,
     latest |-> remote]

is_empty(gap) == gap.oldest > gap.latest

\* consistent-as-of(remote) when the gap is empty, behind (None) otherwise.
is_synced_at(st) ==
    IF is_empty(EthSyncGap(st.remote, st.local)) THEN Some(st.remote) ELSE None

\* The gap to download, None when there is nothing to download.
needs_to_sync_eth(st) ==
    IF is_empty(EthSyncGap(st.remote, st.local)) THEN None
    ELSE Some(EthSyncGap(st.remote, st.local))

\* The first page of a gap: at most page_size heights from its oldest one.
first_page(gap, page_size) ==
    IF is_empty(gap) THEN None
    ELSE Some([oldest |-> gap.oldest,
               latest |-> Min(gap.oldest + page_size - 1, gap.latest),
               size |-> page_size,
               end |-> gap.latest])

\* The page after p, None when p reached the end of the gap.
reduce(p) ==
    IF p.latest >= p.end THEN None
    ELSE Some([oldest |-> p.latest + 1,
               latest |-> Min(p.latest + p.size, p.end),
               size |-> p.size,
               end |-> p.end])

\* ------------------------------------------------------ the watch channel
\* synced::update_synced: a monotonic merge of consistent-as-of(h) into the
\* cell; behind leaves the cell untouched.  Receivers are woken (the version
\* moves) only when the value changed.
synced_update_synced(cell, st) ==
    LET h == is_synced_at(st)
    IN  IF is_none(h) THEN cell
        ELSE IF is_some(cell.value) /\ unwrap(h) <= unwrap(cell.value) THEN cell
        ELSE [value |-> h, version |-> cell.version + 1]

\* ------------------------------------------------------------- the task
\* A select! without `biased`: any ready branch can complete.
select_unbiased(stop_ready, work_ready) ==
    (IF stop_ready THEN {"stop"} ELSE {})
    \cup (IF work_ready THEN {"work"} ELSE {})

\* tokio::select! { biased; stop, work }: the branches that can complete at
\* a poll where the stop signal is stop_ready and the work is work_ready.
select_biased(stop_ready, work_ready) ==
    IF stop_ready THEN {"stop"}
    ELSE IF work_ready THEN {"work"}
    ELSE {}

\* into_task without the call of set_deploy_height.
set_deploy_height_skipped(db_height, cfg) == db_height

\* The log stream without take_until: the stop signal does not end it.
take_until_never(sd) == {"work"}

\* logs.take_until(shutdown.while_started()): at every poll of the stream
\* the stop signal is polled first and, when ready, ends the stream; the
\* stream's next item is otherwise awaited.
take_until(sd) == select_biased(sd # "Started", TRUE)

\* Task::set_deploy_height
set_deploy_height(db_height, cfg) ==
    set_finalized_da_height_to_at_least(db_height, cfg.da_deploy_height)

\* EthLocal::observed that does not read the database.
observed_unread(db_height) == None

\* EthLocal::observed taking the finalized DA height for the next height to
\* download.
observed_next(db_height) ==
    IF get_finalized_da_height(db_height).ok
    THEN Some(get_finalized_da_height(db_height).value + 1)
    ELSE None

\* EthLocal::observed for Task
observed(db_height) ==
    IF get_finalized_da_height(db_height).ok
    THEN Some(get_finalized_da_height(db_height).value)
    ELSE None

\* Task::download_logs with a page one height too long.
Task_download_logs_long(gap, cfg) == first_page(gap, cfg.log_page_size + 1)

\* Task::download_logs: the page stream over the gap, cut at log_page_size.
Task_download_logs(gap, cfg) == first_page(gap, cfg.log_page_size)

\* Task::update_synced sending the remote height whatever the gap is.
Task_update_synced_remote(cell, st) ==
    [value |-> Some(st.remote), version |-> cell.version + 1]

\* Task::update_synced sending the synced height without the merge.
Task_update_synced_send(cell, st) ==
    IF is_some(is_synced_at(st))
    THEN [value |-> is_synced_at(st), version |-> cell.version + 1]
    ELSE cell

\* Task::update_synced sending the local height when the gap is empty.
Task_update_synced_local(cell, st) ==
    IF is_some(is_synced_at(st)) /\ is_some(st.local)
    THEN synced_update_synced(cell, [remote |-> unwrap(st.local), local |-> st.local])
    ELSE cell

\* Task::update_synced storing the merged value without waking receivers.
Task_update_synced_silent(cell, st) ==
    [value |-> synced_update_synced(cell, st).value, version |-> cell.version]

\* Task::update_synced publishing the local height of a behind state.
Task_update_synced_behind(cell, st) ==
    IF is_none(is_synced_at(st)) /\ is_some(st.local)
    THEN synced_update_synced(cell, [remote |-> unwrap(st.local), local |-> st.local])
    ELSE synced_update_synced(cell, st)

\* Task::update_synced with send in place of send_if_modified: receivers
\* are woken by every iteration that publishes, behind or not.
Task_update_synced_notify(cell, st) ==
    [value |-> synced_update_synced(cell, st).value, version |-> cell.version + 1]

\* Task::update_synced
Task_update_synced(cell, st) == synced_update_synced(cell, st)

\* Task::run sleeping only after an error.
should_sleep_on_error(sd, res, cell) == sd = "Started" /\ res # "Ok"

\* Task::run deciding the sleep without looking at the shutdown state.
should_sleep_unwatched(sd, res, cell) == res # "Ok" \/ is_some(cell.value)

\* Task::run sleeping after every iteration.
should_sleep_always(sd, res, cell) == TRUE

\* Task::run deciding the sleep without looking at the result.
should_sleep_when_synced(sd, res, cell) == sd = "Started" /\ is_some(cell.value)

\* Task::run: whether the loop sleeps after the iteration.
should_sleep(sd, res, cell) ==
    sd = "Started" /\ (res # "Ok" \/ is_some(cell.value))

\* SharedState::get_message with a strict height filter.
get_message_strict(table, id, da_height) ==
    LET m == storage_get(table, id)
    IN  IF is_some(m) /\ unwrap(m).da_height < da_height THEN m ELSE None

\* SharedState::get_message
get_message(table, id, da_height) ==
    LET m == storage_get(table, id)
    IN  IF is_some(m) /\ unwrap(m).da_height <= da_height THEN m ELSE None


\* ------------------------------------------------------------------ Init
\* NotInitializedTask::new: the watch channel holds None.  The database is
\* empty or the one an earlier run left; the service is started.
\* The results of run::run that are failures of a page of the log stream.
PageErrors == {"ErrProvider", "ErrDecode"}

NoIter == [slept |-> FALSE, raced |-> "none", retry |-> FALSE, rewrote |-> FALSE]
NoCall == [pc |-> "idle", id |-> 0, da_height |-> 0, result |-> None]

Init ==
    /\ config \in [da_deploy_height : 0..MaxDeploy, log_page_size : 1..MaxPageSize]
    /\ finalized_da_height \in {None} \cup {Some(h) : h \in 0..MaxDeploy}
    /\ messages = IF is_some(finalized_da_height)
                  THEN TableUpTo(unwrap(finalized_da_height))
                  ELSE << >>
    /\ synced = [value |-> None, version |-> 0]
    /\ shutdown = "Started"
    /\ pc = "NotInitialized"
    /\ state = [remote |-> 0, local |-> None]
    /\ page = None
    /\ applied = None
    /\ result = "None"
    /\ requests = << >>
    /\ iter = NoIter
    /\ observed_max = None
    /\ base = None
    /\ awaiter = [pc |-> "idle", height |-> 0, seen |-> 0]
    /\ reader = NoCall

\* ------------------------------------------------------- the environment
\* The external stop signal: the StateWatcher leaves Started for good.
Stop ==
    /\ shutdown = "Started"
    /\ shutdown' = "Stopped"
    /\ UNCHANGED <<config, db_vars, synced, task_vars, awaiter, reader>>

\* What the node can answer to get_block(Finalized): a block with a number,
\* an error, or a block without a number.  The number may be below one the
\* node reported before.
Blocks ==
    {[kind |-> "Ok", number |-> h] : h \in Heights}
    \cup {[kind |-> "ErrProvider", number |-> 0],
          [kind |-> "ErrPending", number |-> 0]}

\* ------------------------------------------------------ the task's steps
\* RunnableService::into_task: the Task is built and the deploy height set.
IntoTask ==
    /\ pc = "NotInitialized"
    /\ finalized_da_height' = set_deploy_height(finalized_da_height, config)
    /\ base' = finalized_da_height'
    /\ pc' = "host"
    /\ UNCHANGED <<config, messages, synced, shutdown, state, page, applied,
                   result, requests, iter, observed_max, awaiter, reader>>

\* The service runner calls Task::run again while the service is started.
HostRun ==
    /\ pc = "host"
    /\ shutdown = "Started"
    /\ pc' = "wait_if_eth_syncing"
    /\ result' = "None"
    /\ iter' = [NoIter EXCEPT !.retry = iter.retry]
    /\ UNCHANGED <<config, db_vars, synced, shutdown, state, page, applied,
                   requests, observed_max, base, awaiter, reader>>

\* The service runner ends the loop once the service is not started, and
\* drops the task.
HostStop ==
    /\ pc = "host"
    /\ shutdown # "Started"
    /\ pc' = "Stopped"
    /\ UNCHANGED <<config, db_vars, synced, shutdown, state, page, applied,
                   result, requests, iter, observed_max, base, awaiter, reader>>

\* RelayerData::wait_if_eth_syncing for Task: the stop signal raced, with
\* priority, against the wait for the node to report that it is not syncing.
\* A poll that finds the node syncing and no stop signal keeps waiting.
WaitIfEthSyncing ==
    /\ pc = "wait_if_eth_syncing"
    /\ \E status \in {"Syncing", "NotSyncing"} :
       \E branch \in select_biased(shutdown # "Started", status = "NotSyncing") :
        /\ iter' = [iter EXCEPT !.raced =
                       IF shutdown # "Started" /\ status = "NotSyncing"
                       THEN "wait_if_eth_syncing" ELSE @]
        /\ IF branch = "stop"
           THEN /\ result' = "ErrStopped"
                /\ pc' = "run_end"
           ELSE /\ result' = result
                /\ pc' = "finalized"
    /\ UNCHANGED <<config, db_vars, synced, shutdown, state, page, applied,
                   requests, observed_max, base, awaiter, reader>>

\* EthRemote::finalized for Task, and the rest of state::build_eth: the stop
\* signal raced, with priority, against get_block(Finalized), whose answer
\* is ready.  With the remote height the local one is read (observed) and
\* the gap resolved; a gap to download opens the log stream.
Finalized ==
    /\ pc = "finalized"
    /\ \E block \in Blocks :
       \E branch \in select_biased(shutdown # "Started", TRUE) :
        /\ iter' = [iter EXCEPT
                       !.raced = IF shutdown # "Started" THEN "finalized" ELSE @,
                       !.retry = FALSE]
        /\ IF branch = "stop"
           THEN /\ result' = "ErrStopped"
                /\ pc' = "run_end"
                /\ UNCHANGED <<state, page, observed_max>>
           ELSE IF block.kind = "Ok"
           THEN /\ state' = [remote |-> block.number,
                             local |-> observed(finalized_da_height)]
                /\ observed_max' =
                       IF is_some(observed_max)
                       THEN Some(Max(unwrap(observed_max), block.number))
                       ELSE Some(block.number)
                /\ result' = result
                /\ IF is_some(needs_to_sync_eth(state'))
                   THEN /\ page' = Task_download_logs(
                                       unwrap(needs_to_sync_eth(state')), config)
                        /\ pc' = "download_logs"
                   ELSE /\ page' = None
                        /\ pc' = "update_synced"
           ELSE /\ result' = block.kind
                /\ pc' = "run_end"
                /\ UNCHANGED <<state, page, observed_max>>
    /\ UNCHANGED <<config, db_vars, synced, shutdown, applied, requests, base,
                   awaiter, reader>>

\* write_logs returns Ok when the stream ends, by exhaustion or because
\* take_until cut it: the finalized DA height is raised to the top of the
\* last page written, and run::run goes on to update_synced.
WriteLogsEnd ==
    /\ finalized_da_height' =
           IF is_some(applied)
           THEN set_finalized_da_height_to_at_least(finalized_da_height,
                                                    unwrap(applied))
           ELSE finalized_da_height
    /\ pc' = "update_synced"

\* Task::download_logs, write_logs asking the stream for its next page:
\* take_until polls the stop signal before the stream.  A stream with a
\* page left issues the page's get_logs request.
PollLogs ==
    /\ pc = "download_logs"
    /\ \E branch \in take_until(shutdown) :
        IF branch = "stop" \/ is_none(page)
        THEN /\ WriteLogsEnd
             /\ UNCHANGED requests
        ELSE /\ requests' = Append(requests, <<unwrap(page).oldest,
                                               unwrap(page).latest>>)
             /\ pc' = "get_logs"
             /\ UNCHANGED finalized_da_height
    /\ UNCHANGED <<config, messages, synced, shutdown, state, page, applied,
                   result, iter, observed_max, base, awaiter, reader>>

\* The get_logs request of a page is in flight.  A stop signal drops it and
\* ends the stream.  Otherwise the node answers with the page's logs or an
\* error; the logs are decoded, all of them before any is written, and the
\* messages among them written; a failure ends write_logs with the error.
GetLogs ==
    /\ pc = "get_logs"
    /\ \E branch \in take_until(shutdown) :
        IF branch = "stop"
        THEN /\ WriteLogsEnd
             /\ UNCHANGED <<messages, page, applied, result, iter>>
        ELSE \E logs \in {"Ok"} \cup PageErrors :
            LET ms == MessagesOf(get_logs(unwrap(page).oldest,
                                          unwrap(page).latest))
                res == IF logs = "Ok" THEN insert_messages_result(messages, ms)
                       ELSE logs
            IN  IF res = "Ok"
                THEN /\ messages' = insert_messages(messages, ms)
                     /\ applied' = Some(unwrap(page).latest)
                     /\ page' = reduce(unwrap(page))
                     /\ iter' = [iter EXCEPT !.rewrote =
                                    @ \/ (ms # {} /\ \A m \in ms :
                                        storage_get(messages, m.nonce) = Some(m))]
                     /\ pc' = "download_logs"
                     /\ UNCHANGED <<finalized_da_height, result>>
                ELSE /\ result' = res
                     /\ pc' = "run_end"
                     /\ UNCHANGED <<db_vars, page, applied, iter>>
    /\ UNCHANGED <<config, synced, shutdown, state, requests,
                   observed_max, base, awaiter, reader>>

\* run::run publishes the state of the iteration and returns Ok.
UpdateSynced ==
    /\ pc = "update_synced"
    /\ synced' = Task_update_synced(synced, state)
    /\ result' = "Ok"
    /\ pc' = "run_end"
    /\ UNCHANGED <<config, db_vars, shutdown, state, page, applied, requests,
                   iter, observed_max, base, awaiter, reader>>

\* Task::run returns to the service runner: the iteration's stream and
\* result are gone; whether it slept, and whether a page of its stream
\* failed (until the next iteration resolves its gap), is kept for the
\* properties.  Within the iteration, iter.rewrote tells that a page was
\* written whose messages were all in the table before.
Return(slept) ==
    /\ pc' = "host"
    /\ page' = None
    /\ applied' = None
    /\ requests' = << >>
    /\ result' = "None"
    /\ iter' = [slept |-> slept, raced |-> "none",
                retry |-> result \in PageErrors /\ requests # << >>,
                rewrote |-> FALSE]

\* Task::run after run::run: sleep the rest of sync_minimum_duration, or
\* return at once.
RunEnd ==
    /\ pc = "run_end"
    /\ IF should_sleep(shutdown, result, synced)
       THEN /\ pc' = "sleep"
            /\ iter' = [iter EXCEPT !.slept = TRUE]
            /\ UNCHANGED <<page, applied, requests, result>>
       ELSE Return(FALSE)
    /\ UNCHANGED <<config, db_vars, synced, shutdown, state, observed_max,
                   base, awaiter, reader>>

\* The sleep is over and Task::run returns.
Sleep ==
    /\ pc = "sleep"
    /\ Return(TRUE)
    /\ UNCHANGED <<config, db_vars, synced, shutdown, state, observed_max,
                   base, awaiter, reader>>

\* ----------------------------------------------------------- SharedState
\* The loop test with map_or(false, ..): None passes for a synced height.
borrow_and_update_unset(aw) ==
    [aw EXCEPT
        !.seen = synced.version,
        !.pc = IF is_some(synced.value) /\ unwrap(synced.value) < aw.height
               THEN "changed" ELSE "returned"]

\* The loop test of await_at_least_synced: rx.borrow_and_update() marks the
\* version read as seen; the caller waits for a change while the value is
\* None or below the height.
borrow_and_update(aw) ==
    [aw EXCEPT
        !.seen = synced.version,
        !.pc = IF is_none(synced.value) \/ unwrap(synced.value) < aw.height
               THEN "changed" ELSE "returned"]

\* await_at_least_synced(height) is called: the receiver is cloned and the
\* loop test made for the first time.
AwaitAtLeastSynced ==
    /\ awaiter.pc = "idle"
    /\ \E h \in Heights :
        awaiter' = borrow_and_update([pc |-> "idle", height |-> h, seen |-> 0])
    /\ UNCHANGED <<config, db_vars, synced, shutdown, task_vars, reader>>

\* rx.changed().await completes on a version the receiver has not seen, and
\* the loop test is made again; it fails once the sender is dropped with
\* the task and there is no unseen version.
AwaitChanged ==
    /\ awaiter.pc = "changed"
    /\ IF synced.version # awaiter.seen
       THEN awaiter' = borrow_and_update(awaiter)
       ELSE /\ pc = "Stopped"
            /\ awaiter' = [awaiter EXCEPT !.pc = "closed"]
    /\ UNCHANGED <<config, db_vars, synced, shutdown, task_vars, reader>>

\* await_synced() is called: the receiver is cloned and the value tested
\* once; a caller that finds None waits for one change.
AwaitSynced ==
    /\ awaiter.pc = "idle"
    /\ awaiter' = [pc |-> IF is_none(synced.value) THEN "changed" ELSE "returned",
                   height |-> 0,
                   seen |-> synced.version,
                   waited |-> is_none(synced.value)]
    /\ UNCHANGED <<config, db_vars, synced, shutdown, task_vars, reader>>

\* rx.changed().await of await_synced completes on an unseen version and the
\* call returns Ok without another test; it fails once the sender is
\* dropped with the task and there is no unseen version.
AwaitSyncedChanged ==
    /\ awaiter.pc = "changed"
    /\ IF synced.version # awaiter.seen
       THEN awaiter' = [awaiter EXCEPT !.seen = synced.version,
                                       !.pc = "returned"]
       ELSE /\ pc = "Stopped"
            /\ awaiter' = [awaiter EXCEPT !.pc = "closed"]
    /\ UNCHANGED <<config, db_vars, synced, shutdown, task_vars, reader>>

\* get_message(id, da_height) is called and returns.
GetMessage ==
    /\ reader.pc = "idle"
    /\ \E id \in Nonces, h \in Heights :
        reader' = [pc |-> "done", id |-> id, da_height |-> h,
                   result |-> get_message(messages, id, h)]
    /\ UNCHANGED <<config, db_vars, synced, shutdown, task_vars, awaiter>>

\* The caller is done with what get_message returned and may call again.
GetMessageReturn ==
    /\ reader.pc = "done"
    /\ reader' = NoCall
    /\ UNCHANGED <<config, db_vars, synced, shutdown, task_vars, awaiter>>

\* ------------------------------------------------------- specifications
\* The steps of the task while the service is started.
RunNext ==
    \/ IntoTask
    \/ HostRun
    \/ WaitIfEthSyncing
    \/ Finalized
    \/ PollLogs
    \/ GetLogs
    \/ UpdateSynced
    \/ RunEnd
    \/ Sleep

\* The service: the task, the stop signal and the end of the loop.
Next ==
    \/ Stop
    \/ HostStop
    \/ RunNext

Spec == Init /\ [][Next]_vars

\* The service and a caller of await_at_least_synced.
AwaitNext ==
    \/ Next
    \/ AwaitAtLeastSynced
    \/ AwaitChanged

AwaitSpec == Init /\ [][AwaitNext]_vars

\* The service to which no stop signal is delivered, and the caller.  Both
\* are tasks of a fair runtime: each takes its next step once it can.  The
\* node ends its own synchronization and answers.
LiveNext ==
    \/ RunNext
    \/ AwaitAtLeastSynced
    \/ AwaitChanged

LiveSpec ==
    Init /\ [][LiveNext]_vars /\ WF_vars(RunNext) /\ WF_vars(AwaitChanged)

\* The service and a caller of get_message.
ReadNext ==
    \/ Next
    \/ GetMessage
    \/ GetMessageReturn

ReadSpec == Init /\ [][ReadNext]_vars

\* The service and a caller of await_synced.
AwaitSyncedNext ==
    \/ Next
    \/ AwaitSynced
    \/ AwaitSyncedChanged

AwaitSyncedSpec == Init /\ [][AwaitSyncedNext]_vars

\* The service on a fair runtime: the task and the service runner take
\* their next step once they can; the stop signal may come or not.
FairSpec == Init /\ [][Next]_vars /\ WF_vars(RunNext \/ HostStop)

\* ---------------------------------------------------------------- claims
\* The messages the logs of height h decode to are all in the Messages table.
Committed(h) ==
    \A m \in MessagesOf(EventsAt(h)) : storage_get(messages, m.nonce) = Some(m)

\* The heights of the gaps this run has processed up to h: those above the
\* finalized DA height the run started from.
Processed(h) == {k \in Heights : is_some(base) /\ unwrap(base) < k /\ k <= h}

\* C1: whenever the published watermark is Some(h), the finalized DA height
\* is at least h and the messages of every processed height up to h are in
\* storage: the watermark is never ahead of the committed data.
C1_WatermarkCommitted ==
    is_some(synced.value) =>
        /\ is_some(finalized_da_height)
        /\ unwrap(finalized_da_height) >= unwrap(synced.value)
        /\ \A k \in Processed(unwrap(synced.value)) : Committed(k)

\* C1 witness: a watermark that covers two heights this run downloaded, the
\* second of which holds messages.
C1_Witness ==
    /\ is_some(synced.value)
    /\ is_some(base)
    /\ unwrap(synced.value) >= unwrap(base) + 2
    /\ \E k \in Processed(unwrap(synced.value)) : MessagesOf(EventsAt(k)) # {}

\* o2 is Some and not below o1, when o1 is Some.
NotLowered(o1, o2) == is_some(o1) => is_some(o2) /\ unwrap(o2) >= unwrap(o1)

\* C2: no step lowers the finalized DA height, and no step lowers the
\* watermark or returns it to None, whatever heights the node reports.
C2_NeverLowered ==
    [][/\ NotLowered(finalized_da_height, finalized_da_height')
       /\ NotLowered(synced.value, synced'.value)]_vars

\* C2 witness: an iteration has ended well after the node reported a height
\* below the watermark published from an earlier, higher report.
C2_Witness ==
    /\ pc = "run_end"
    /\ result = "Ok"
    /\ is_some(synced.value)
    /\ state.remote < unwrap(synced.value)
    /\ is_none(needs_to_sync_eth(state))

\* o is at most the highest remote height observed.
AtMostObserved(o) ==
    is_some(o) => is_some(observed_max) /\ unwrap(o) <= unwrap(observed_max)

\* C3 as stated: once a remote height has been observed, neither the
\* finalized DA height nor the watermark exceeds the highest one observed.
C3_NeitherExceedsObserved ==
    is_some(observed_max) =>
        /\ AtMostObserved(finalized_da_height)
        /\ AtMostObserved(synced.value)

\* C3 amended: the watermark never exceeds the highest remote height
\* observed; the finalized DA height never exceeds the larger of that height
\* and the height the database held when startup had set the deploy height.
C3_ExceedsOnlyByStartup ==
    /\ AtMostObserved(synced.value)
    /\ pc # "NotInitialized" =>
           /\ is_some(finalized_da_height)
           /\ is_some(base)
           /\ unwrap(finalized_da_height) <=
                  IF is_some(observed_max)
                  THEN Max(unwrap(base), unwrap(observed_max))
                  ELSE unwrap(base)

\* C3 witness: the deploy height lies above every remote height observed,
\* and a watermark has been published for the observed height.
C3_Witness ==
    /\ is_some(observed_max)
    /\ is_some(synced.value)
    /\ unwrap(finalized_da_height) > unwrap(observed_max)
    /\ config.da_deploy_height > unwrap(observed_max)

\* C4 as stated: a record get_message returned was not produced above the
\* published watermark.
C4_NoneAboveWatermark ==
    (reader.pc = "done" /\ is_some(reader.result)) =>
        /\ is_some(synced.value)
        /\ unwrap(reader.result).da_height <= unwrap(synced.value)

\* The results of run::run that are failures of the node or of decoding.
RemoteErrors == {"ErrProvider", "ErrPending", "ErrDecode"}

\* C5: with no stop signal delivered (LiveSpec), if iterations stop failing
\* and the remote height stays at the height a caller of
\* await_at_least_synced waits for, the call returns.
C5_AwaitReturns ==
    (/\ <>[](result \notin RemoteErrors)
     /\ <>[](awaiter.pc # "idle" /\ state.remote = awaiter.height))
    => <>(awaiter.pc = "returned")

\* C5 witness: a call for a height above the one the run started from has
\* returned after it waited for a change of the watermark.
C5_Witness ==
    /\ awaiter.pc = "returned"
    /\ awaiter.seen > 0
    /\ shutdown = "Started"
    /\ is_some(base)
    /\ awaiter.height > unwrap(base)
    /\ state.remote = awaiter.height

\* The gap the iteration resolved.
IterGap == EthSyncGap(state.remote, state.local)

\* Task::run leaves run_end for the sleep or for the service runner.
Decides == pc = "run_end" /\ pc' # "run_end"

\* C6 as stated: an iteration that ends with the service started sleeps
\* exactly when it failed or its gap was empty.
C6_SleepIffErrorOrEmptyGap ==
    [][(Decides /\ shutdown = "Started") =>
           (pc' = "sleep" <=> (result # "Ok" \/ is_empty(IterGap)))]_vars

\* C6 amended: an iteration that ends with the service started sleeps
\* exactly when it failed or the watermark is Some at its end; an iteration
\* that applied a non-empty gap without error is followed at once by the
\* next one only while the watermark is still None.
C6_SleepIffErrorOrSynced ==
    [][(Decides /\ shutdown = "Started") =>
           /\ pc' = "sleep" <=> (result # "Ok" \/ is_some(synced.value))
           /\ (result = "Ok" /\ ~is_empty(IterGap) /\ is_none(synced.value))
                  => pc' = "host"]_vars

\* C6 witness: the sleep is taken after an iteration that applied a
\* non-empty gap in full and without error, the service still started.
C6_Witness ==
    /\ pc = "sleep"
    /\ shutdown = "Started"
    /\ result = "Ok"
    /\ ~is_empty(IterGap)
    /\ requests # << >>
    /\ applied = Some(IterGap.latest)

\* C7: when the stop signal has been delivered by the end of the
\* iteration's work, Task::run does not sleep, whatever the result and the
\* watermark are.
C7_NoSleepAfterStop ==
    [][(Decides /\ shutdown # "Started") => pc' # "sleep"]_vars

\* C7 witness: with a watermark published and the stop signal delivered,
\* the last iteration has returned without the sleep.
C7_Witness ==
    /\ pc = "host"
    /\ shutdown = "Stopped"
    /\ is_some(synced.value)
    /\ ~iter.slept

\* C8: a poll of the syncing wait or of the finalized-height query that
\* finds the stop signal ready takes the stop branch, whether the node's
\* answer is ready too or not: the result is the stopped error, no gap is
\* resolved and no page requested.
C8_StopTakesPriority ==
    [][(/\ pc \in {"wait_if_eth_syncing", "finalized"}
        /\ pc' # pc
        /\ shutdown # "Started") =>
           /\ pc' = "run_end"
           /\ result' = "ErrStopped"
           /\ requests' = << >>
           /\ UNCHANGED <<state, page, observed_max, db_vars, synced>>]_vars

\* C8 witness: the finalized-height query was polled with the stop signal
\* and the node's answer both ready, and ended with the stopped error.
C8_Witness ==
    /\ iter.raced = "finalized"
    /\ result = "ErrStopped"
    /\ pc = "run_end"

\* The sub-ranges of the pages from page o on, in order.
RECURSIVE pages_from(_)
pages_from(o) ==
    IF is_none(o) THEN << >>
    ELSE <<<<unwrap(o).oldest, unwrap(o).latest>>>>
         \o pages_from(reduce(unwrap(o)))

\* C9: the requests of an iteration are consecutive sub-ranges of its gap,
\* none longer than the page size, ascending from the gap's first height
\* without overlap or omission, and reach the gap's last height when the
\* stream is exhausted; an empty gap has no request.
C9_PagesCoverGap ==
    LET n == Len(requests)
        p == config.log_page_size
    IN  /\ \A i \in 1..n :
            /\ requests[i][1] <= requests[i][2]
            /\ requests[i][2] - requests[i][1] + 1 <= p
            /\ requests[i][2] <= IterGap.latest
        /\ n > 0 => requests[1][1] = IterGap.oldest
        /\ \A i \in 1..(n - 1) : requests[i + 1][1] = requests[i][2] + 1
        /\ (pc = "download_logs" /\ is_none(page)) =>
               n > 0 /\ requests[n][2] = IterGap.latest
        /\ pc \in {"download_logs", "get_logs"} => ~is_empty(IterGap)
        /\ (pc = "update_synced" /\ is_empty(IterGap)) => n = 0
        /\ pages_from(first_page([oldest |-> 101, latest |-> 150], 20))
               = <<<<101, 120>>, <<121, 140>>, <<141, 150>>>>
        /\ pages_from(first_page([oldest |-> 5, latest |-> 4], 20)) = << >>

\* C9 witness: a gap longer than a page has been requested to its end, the
\* last sub-range shorter than the page size.
C9_Witness ==
    /\ pc = "download_logs"
    /\ is_none(page)
    /\ Len(requests) >= 2
    /\ requests[Len(requests)][2] - requests[Len(requests)][1] + 1
           < config.log_page_size

\* The record get_message is to return for id and h from the table.
Expected(table, id, h) ==
    IF \E n \in DOMAIN table : n = id /\ table[n].da_height <= h
    THEN Some(table[id])
    ELSE None

\* C10: get_message(id, h) returns the record stored under id when there is
\* one and its da_height is at most h, and otherwise nothing; the call
\* changes neither the database nor the watermark.
C10_GetMessage ==
    [][(reader.pc = "idle" /\ reader'.pc = "done") =>
           /\ reader'.result =
                  Expected(messages, reader'.id, reader'.da_height)
           /\ is_some(reader'.result) =>
                  unwrap(reader'.result).nonce = reader'.id
           /\ UNCHANGED <<db_vars, synced>>]_vars

\* C10 witness: a call for a stored record with a height bound below the
\* record's da_height returned nothing.
C10_Witness ==
    /\ reader.pc = "done"
    /\ reader.result = None
    /\ reader.id \in DOMAIN messages
    /\ messages[reader.id].da_height > reader.da_height

\* The watermark passes the loop test of await_at_least_synced(h).
AtLeast(cell, h) == is_some(cell.value) /\ unwrap(cell.value) >= h

\* C11: await_at_least_synced(h) returns Ok only by a loop test made in a
\* state whose watermark is Some(w), w >= h; a loop test made while the
\* watermark is None or below h leaves the caller waiting for a change; a
\* waiting caller has seen every version unless it can test again; and a
\* caller that returned Ok finds the watermark at least h ever after.
C11_ReturnsOnlyAtLeast ==
    /\ awaiter.pc = "returned" => AtLeast(synced, awaiter.height)
    /\ (awaiter.pc = "changed" /\ awaiter.seen = synced.version)
           => ~AtLeast(synced, awaiter.height)
    /\ (awaiter.pc = "changed" /\ awaiter.seen # synced.version)
           => ENABLED AwaitChanged
    /\ awaiter.pc = "closed" => pc = "Stopped" /\ awaiter.seen = synced.version

\* C11 witness: the caller has tested a watermark that is Some and below
\* the height it asked for, and waits for the next change.
C11_Witness ==
    /\ awaiter.pc = "changed"
    /\ is_some(synced.value)
    /\ awaiter.seen = synced.version
    /\ awaiter.seen >= 2
    /\ unwrap(synced.value) < awaiter.height

\* C12: await_synced() called with the watermark Some returns at the call;
\* called with the watermark None it waits, and every step by which a call
\* returns Ok is taken with the watermark Some: a caller that waited
\* returns only after a publication, and the watermark of a returned
\* caller is Some ever after.
C12_AwaitSynced ==
    /\ [][(awaiter.pc = "idle" /\ awaiter'.pc # "idle") =>
              /\ is_some(synced.value) => awaiter'.pc = "returned"
              /\ is_none(synced.value) => awaiter'.pc = "changed"]_vars
    /\ [][(awaiter.pc # "returned" /\ awaiter'.pc = "returned") =>
              /\ is_some(synced.value)
              /\ awaiter.pc = "changed" => synced.version > awaiter.seen]_vars
    /\ [](awaiter.pc = "returned" => is_some(synced.value))
    /\ [](awaiter.pc = "changed" /\ awaiter.seen = synced.version
              => is_none(synced.value))

\* C12 witness: a caller that found the watermark None has returned, after
\* iterations that were behind and published nothing and one that did.
C12_Witness ==
    /\ awaiter.pc = "returned"
    /\ awaiter.waited
    /\ is_some(synced.value)
    /\ is_some(base)
    /\ unwrap(synced.value) > unwrap(base)

\* The floor of the finalized DA height.
Floor == config.da_deploy_height

\* C13: into_task leaves the finalized DA height at the larger of the
\* stored height and config.da_deploy_height, so that on a database without
\* a height get_finalized_da_height is Ok(da_deploy_height) when the first
\* iteration starts and until write_logs raises it; every iteration reads
\* a local height that is at least da_deploy_height, and no gap resolved
\* and no get_logs request starts at or below da_deploy_height.
C13_DeployHeightFloor ==
    /\ [][(pc = "NotInitialized" /\ pc' # pc) =>
              /\ get_finalized_da_height(finalized_da_height').ok
              /\ get_finalized_da_height(finalized_da_height').value =
                     IF is_some(finalized_da_height)
                     THEN Max(unwrap(finalized_da_height), Floor)
                     ELSE Floor
              /\ requests' = << >>
              /\ is_none(observed_max')]_vars
    /\ [](pc # "NotInitialized" =>
              /\ get_finalized_da_height(finalized_da_height).ok
              /\ get_finalized_da_height(finalized_da_height).value >= Floor
              /\ is_none(observed_max) => finalized_da_height = base)
    /\ [](is_some(observed_max) =>
              /\ is_some(state.local)
              /\ unwrap(state.local) >= Floor
              /\ IterGap.oldest > Floor)
    /\ [](\A i \in 1..Len(requests) : requests[i][1] > Floor)

\* C13 witness: a database that held nothing, a deploy height above 0, and
\* the first get_logs request, which starts right above the deploy height.
C13_Witness ==
    /\ pc = "get_logs"
    /\ config.da_deploy_height >= 1
    /\ base = Some(config.da_deploy_height)
    /\ messages = << >>
    /\ requests = <<<<config.da_deploy_height + 1, unwrap(page).latest>>>>

\* A get_logs request of the iteration was answered with an error.
PageFails == pc = "get_logs" /\ pc' = "run_end"

\* C14: when a page of the iteration's gap fails, the first or a later one,
\* the iteration's result is that error; the finalized DA height is then,
\* and when the iteration has returned, the one the iteration read at its
\* start; no step of the iteration but update_synced, which a failed
\* iteration does not reach, changes the watermark; and the next iteration
\* that resolves a gap reads the same local height, so its gap starts at
\* the same height.
C14_PageErrorKeepsHeight ==
    /\ [][PageFails =>
              /\ result' \in PageErrors
              /\ finalized_da_height' = state.local
              /\ UNCHANGED <<finalized_da_height, synced, state>>]_vars
    /\ [][pc # "update_synced" => UNCHANGED synced]_vars
    /\ []((pc \in {"run_end", "sleep"} /\ result \in PageErrors /\ requests # << >>)
              => finalized_da_height = state.local)
    /\ []((pc \in {"host", "wait_if_eth_syncing", "finalized"} /\ iter.retry)
              => finalized_da_height = state.local)
    /\ [][(pc = "finalized" /\ iter.retry
           /\ pc' \in {"download_logs", "update_synced"}) =>
              /\ state'.local = state.local
              /\ EthSyncGap(state'.remote, state'.local).oldest = IterGap.oldest]_vars

\* C14 witness: the iteration wrote a page, holding a message, above the
\* finalized DA height, a later page failed, and the iteration has slept
\* and returned with the finalized DA height it started from.
C14_Witness ==
    /\ pc = "host"
    /\ iter.retry
    /\ iter.slept
    /\ is_none(synced.value)
    /\ \E n \in DOMAIN messages :
           messages[n].da_height > unwrap(finalized_da_height)

\* The table holds nothing but messages of the chain, each under its nonce.
OfTheChain(table) ==
    \A n \in DOMAIN table :
        table[n] \in MessagesOf(get_logs(0, MaxHeight)) /\ table[n].nonce = n

\* C15: writing a page to a table that holds the page's messages already
\* is not an error and changes nothing: for every page, the table and the
\* finalized DA height after two writes are those after one; a page an
\* iteration writes again, after a failed one over the same gap, leaves
\* the database as it is; the node answering, the write can always be
\* made; and an iteration that wrote pages again and reached the end of
\* its gap leaves the messages of the gap, once each, and the gap's last
\* height in the database.
C15_ReapplyIsNoOp ==
    /\ [](\A lo \in Heights, hi \in Heights :
              LET ms == MessagesOf(get_logs(lo, hi))
                  once == insert_messages(messages, ms)
                  h1 == set_finalized_da_height_to_at_least(finalized_da_height, hi)
              IN  /\ insert_messages_result(once, ms) = "Ok"
                  /\ insert_messages(once, ms) = once
                  /\ set_finalized_da_height_to_at_least(h1, hi) = h1)
    /\ [][(/\ pc = "get_logs"
           /\ pc' = "download_logs"
           /\ \A m \in MessagesOf(get_logs(unwrap(page).oldest, unwrap(page).latest)) :
                  storage_get(messages, m.nonce) = Some(m))
              => UNCHANGED db_vars]_vars
    /\ []((pc = "get_logs" /\ shutdown = "Started")
              => ENABLED (GetLogs /\ pc' = "download_logs"))
    /\ [](OfTheChain(messages))
    /\ []((iter.rewrote /\ pc = "update_synced" /\ applied = Some(IterGap.latest))
              => /\ finalized_da_height = Some(IterGap.latest)
                 /\ \A k \in IterGap.oldest..IterGap.latest : Committed(k))

\* C15 witness: an iteration that wrote again a page holding messages, all
\* of them stored by a failed iteration before, has reached the end of its
\* gap.
C15_Witness ==
    /\ iter.rewrote
    /\ pc = "update_synced"
    /\ applied = Some(IterGap.latest)
    /\ shutdown = "Started"
    /\ Len(requests) >= 2

\* C16: an iteration that ends with a failure of the node or of decoding,
\* the service started, leaves the service started, sleeps, returns to the
\* service runner and is followed by a further iteration unless the stop
\* signal comes first; the task steps never change the service's state,
\* and the loop ends only after the stop signal.
C16_FailureIsContained ==
    /\ [][(Decides /\ result \in RemoteErrors /\ shutdown = "Started")
              => pc' = "sleep" /\ shutdown' = "Started"]_vars
    /\ [][pc' # pc => shutdown' = shutdown]_vars
    /\ [][(pc # "Stopped" /\ pc' = "Stopped")
              => shutdown = "Stopped" /\ pc = "host"]_vars
    /\ []((pc = "host" /\ shutdown = "Started") => ENABLED HostRun)
    /\ ((pc = "run_end" /\ result \in RemoteErrors)
            ~> (pc = "sleep" \/ shutdown = "Stopped"))
    /\ ((pc = "sleep" /\ result \in RemoteErrors)
            ~> (pc = "wait_if_eth_syncing" \/ shutdown = "Stopped"))

\* C16 witness: a page of the last iteration failed, and with the service
\* still started the next iteration is at its finalized-height query.
C16_Witness ==
    /\ pc = "finalized"
    /\ iter.retry
    /\ shutdown = "Started"
    /\ is_none(synced.value)

\* The finalized-height query was answered and the gap resolved.
Resolves == pc = "finalized" /\ pc' \in {"download_logs", "update_synced"}

\* C17: for every remote height r and local height l the gap is the
\* interval of the heights above l up to r, empty exactly when l >= r; the
\* state is synced at r exactly when the gap is empty, and has the gap to
\* download otherwise.  The local height an iteration resolves its gap
\* with is the finalized DA height stored when the remote height was
\* answered; the iteration publishes when that height is at least the
\* remote one, and otherwise opens its log stream at the height above it.
C17_GapResolution ==
    /\ [](\A r \in Heights, l \in Heights :
              LET st == [remote |-> r, local |-> Some(l)]
                  gap == EthSyncGap(r, Some(l))
              IN  /\ gap = [oldest |-> l + 1, latest |-> r]
                  /\ {h \in 0..(MaxHeight + 1) : gap.oldest <= h /\ h <= gap.latest}
                         = {h \in Heights : l < h /\ h <= r}
                  /\ is_empty(gap) <=> l >= r
                  /\ is_synced_at(st) = IF l >= r THEN Some(r) ELSE None
                  /\ needs_to_sync_eth(st) = IF l >= r THEN None ELSE Some(gap))
    /\ [][Resolves =>
              /\ state'.local = finalized_da_height
              /\ is_some(state'.local)
              /\ state'.remote \in Heights
              /\ pc' = "update_synced" <=> unwrap(state'.local) >= state'.remote
              /\ pc' = "download_logs" =>
                     /\ is_some(page')
                     /\ unwrap(page').oldest = unwrap(finalized_da_height) + 1
                     /\ unwrap(page').end = state'.remote]_vars

\* C17 witness: the node reported a height below the finalized DA height
\* the iteration read, and the iteration resolved an empty gap.
C17_Witness ==
    /\ pc = "update_synced"
    /\ requests = << >>
    /\ state.local = finalized_da_height
    /\ is_some(state.local)
    /\ unwrap(state.local) > state.remote
    /\ unwrap(state.local) > config.da_deploy_height

\* C18: update_synced of an iteration whose gap was not empty leaves the
\* watch channel as it is, value and version, whether the log stream was
\* written to its end or cut by the stop signal; an iteration a page of
\* which failed does not reach update_synced; the channel changes only by
\* update_synced of an iteration that resolved an empty gap, to its remote
\* height; and the value is None as long as the version is the first.
C18_BehindLeavesWatermark ==
    /\ [][(pc = "update_synced" /\ ~is_empty(IterGap)) => UNCHANGED synced]_vars
    /\ [][PageFails => UNCHANGED synced /\ pc' # "update_synced"]_vars
    /\ [][synced' # synced =>
              /\ pc = "update_synced"
              /\ is_empty(IterGap)
              /\ synced'.value = Some(state.remote)
              /\ synced'.version = synced.version + 1]_vars
    /\ [](is_none(synced.value) <=> synced.version = 0)
    /\ []((pc \in {"download_logs", "get_logs"}) => ~is_empty(IterGap))

\* C18 witness: an iteration that was behind has written its gap to the end
\* and returned Ok, and the watermark is still the lower height an earlier
\* iteration published.
C18_Witness ==
    /\ pc = "run_end"
    /\ result = "Ok"
    /\ ~is_empty(IterGap)
    /\ applied = Some(IterGap.latest)
    /\ is_some(synced.value)
    /\ unwrap(synced.value) < state.remote
    /\ finalized_da_height = Some(state.remote)

\* The messages of the page the log stream is at.
PageMessages == MessagesOf(get_logs(unwrap(page).oldest, unwrap(page).latest))

\* The log stream of the iteration has ended without an error before the
\* end of its gap.
CutShort ==
    /\ pc = "update_synced" \/ (pc = "run_end" /\ result = "Ok")
    /\ ~is_empty(IterGap)
    /\ applied # Some(IterGap.latest)

\* C19: a poll of the log stream that finds the stop signal ends the
\* stream: no request is issued then or later in the iteration, a request
\* in flight is dropped and writes nothing, and the finalized DA height
\* becomes the top of the last page written, or stays the one the
\* iteration read when no page was written.  A stream ends before the end
\* of its gap only this way.  A page is written whole or not at all: a
\* request that is answered writes every message of its page and nothing
\* else, a request that is dropped or fails writes nothing, and every page
\* this iteration wrote lies at or below the finalized DA height.
C19_StopCutsAtPageBoundary ==
    /\ [][(pc \in {"download_logs", "get_logs"} /\ pc' # pc /\ shutdown # "Started") =>
              /\ pc' = "update_synced"
              /\ UNCHANGED <<messages, requests, page, applied>>
              /\ finalized_da_height' =
                     IF is_some(applied) THEN applied ELSE state.local]_vars
    /\ [][(pc \in {"update_synced", "run_end", "sleep"}) =>
              requests' \in {requests, << >>}]_vars
    /\ [](CutShort =>
              /\ shutdown = "Stopped"
              /\ is_some(page)
              /\ finalized_da_height = IF is_some(applied) THEN applied ELSE state.local
              /\ \A i \in 1..Len(requests) :
                     \/ requests[i][2] <= unwrap(finalized_da_height)
                     \/ i = Len(requests) /\ requests[i][1] = unwrap(page).oldest)
    /\ [][(pc = "get_logs" /\ pc' = "download_logs") =>
              /\ \A m \in PageMessages : storage_get(messages', m.nonce) = Some(m)
              /\ \A n \in DOMAIN messages' :
                     n \in DOMAIN messages \/ \E m \in PageMessages : m.nonce = n
              /\ applied' = Some(unwrap(page).latest)]_vars
    /\ [][(pc = "get_logs" /\ pc' # "download_logs") => UNCHANGED messages]_vars

\* C19 witness: the stop signal came while the request of the second page
\* of a gap was in flight; the first page, which holds messages, was
\* written and the finalized DA height is its top.
C19_Witness ==
    /\ CutShort
    /\ Len(requests) = 2
    /\ applied = Some(requests[1][2])
    /\ finalized_da_height = applied
    /\ MessagesOf(get_logs(requests[1][1], requests[1][2])) # {}
    /\ MessagesOf(get_logs(requests[2][1], requests[2][2])) # {}
    /\ \A m \in MessagesOf(get_logs(requests[2][1], requests[2][2])) :
           m.nonce \notin DOMAIN messages

\* C20: the stop signal found by a poll of the log stream is not an error:
\* write_logs ends without one and run::run goes on to update_synced with
\* the state resolved before the download, which is behind, so the watch
\* channel is left as it is and the iteration returns Ok although its gap
\* was not written to the end; Task::run then returns to the service
\* runner without the sleep, whatever the watermark is.
C20_StopTruncatesWithoutError ==
    /\ [][(pc \in {"download_logs", "get_logs"} /\ pc' # pc /\ shutdown # "Started") =>
              /\ pc' = "update_synced"
              /\ result' = "None"
              /\ UNCHANGED <<state, synced>>
              /\ is_none(is_synced_at(state))]_vars
    /\ [][(pc = "update_synced" /\ pc' # pc /\ applied # Some(IterGap.latest)
           /\ ~is_empty(IterGap)) =>
              /\ result' = "Ok"
              /\ pc' = "run_end"
              /\ UNCHANGED <<synced, db_vars>>]_vars
    /\ [][(CutShort /\ pc = "run_end" /\ pc' # pc) =>
              /\ pc' = "host"
              /\ ~iter'.slept
              /\ UNCHANGED <<synced, db_vars>>]_vars
    /\ [](CutShort => shutdown = "Stopped" /\ is_none(is_synced_at(state)))

\* C20 witness: with a watermark published earlier, an iteration whose
\* stream was cut after its first page has returned Ok; the finalized DA
\* height is below the remote height and the watermark below both.
C20_Witness ==
    /\ CutShort
    /\ pc = "run_end"
    /\ result = "Ok"
    /\ is_some(synced.value)
    /\ is_some(applied)
    /\ unwrap(synced.value) < unwrap(finalized_da_height)
    /\ unwrap(finalized_da_height) < state.remote

====
